---- MODULE Spec2Model ----
(***************************************************************************)
(* Model of the AI PR reviewer pipeline (src/src/main.py and the modules   *)
(* it drives).                                                             *)
(*                                                                         *)
(* Text is modelled as a sequence of symbols.  A symbol is a string that   *)
(* stands for one indivisible piece of text: "\n" is the newline, " " a    *)
(* blank, "-" a hyphen, "/" "." "*" the path and glob characters, the five *)
(* section headers ("PR_SUMMARY:" ...) one symbol each, and every other    *)
(* string one run of ordinary characters.  An optional value (a key that   *)
(* may be absent from a mapping, a variable that may be absent from the    *)
(* environment) is a sequence of length 0 (absent) or 1 (present).         *)
(***************************************************************************)
EXTENDS Integers, Sequences, FiniteSets, TLC

\* ------------------------------------------------------------------ bounds
\* Longest file list a fetched change set carries in the pipeline.
MaxFiles == 2
\* Longest file list handed to chunk_pr_files on its own.
MaxChunkFiles == 2
\* Longest review list handed to aggregate_reviews on its own.
MaxReviews == 2

\* ------------------------------------------------------- optional values
None == <<>>
Some(v) == <<v>>
IsSet(o) == o /= <<>>
\* dict.get(key, default) / os.getenv(key, default)
Get(o, default) == IF o = <<>> THEN default ELSE o[1]

\* ----------------------------------------------------------- text helpers
NL == "\n"

\* str.startswith for one-symbol prefixes
StartsWith(s, sym) == Len(s) > 0 /\ s[1] = sym

RECURSIVE LStrip(_, _)
\* str.lstrip(chars)
LStrip(s, chars) ==
  IF s /= <<>> /\ s[1] \in chars THEN LStrip(Tail(s), chars) ELSE s

RECURSIVE RStrip(_, _)
\* str.rstrip(chars): drops every trailing symbol that is in chars
RStrip(s, chars) ==
  IF s /= <<>> /\ s[Len(s)] \in chars
  THEN RStrip(SubSeq(s, 1, Len(s) - 1), chars)
  ELSE s

\* str.strip(chars)
StripChars(s, chars) == RStrip(LStrip(s, chars), chars)

\* the whitespace str.strip() removes
Whitespace == {" ", NL}

\* str.strip()
Strip(s) == StripChars(s, Whitespace)

\* str.split(sep): the pieces between consecutive separators, the start and
\* the end of the text; always at least one piece
Split(s, sep) ==
  LET cuts == {0, Len(s) + 1} \cup {i \in 1..Len(s) : s[i] = sep}
      Cut(k) == CHOOSE c \in cuts : Cardinality({d \in cuts : d < c}) = k - 1
  IN [k \in 1..(Cardinality(cuts) - 1) |->
        SubSeq(s, Cut(k) + 1, Cut(k + 1) - 1)]

RECURSIVE Join(_, _)
\* sep.join(parts)
Join(parts, sep) ==
  IF parts = <<>> THEN <<>>
  ELSE IF Len(parts) = 1 THEN parts[1]
  ELSE parts[1] \o <<sep>> \o Join(Tail(parts), sep)

\* ------------------------------------------------------ number conversion
Digits == {"0", "1", "2", "3", "4", "5", "6", "7", "8", "9"}

DigitVal(d) ==
  CASE d = "0" -> 0 [] d = "1" -> 1 [] d = "2" -> 2 [] d = "3" -> 3
    [] d = "4" -> 4 [] d = "5" -> 5 [] d = "6" -> 6 [] d = "7" -> 7
    [] d = "8" -> 8 [] d = "9" -> 9

RECURSIVE DecimalAcc(_, _)
DecimalAcc(s, acc) ==
  IF s = <<>> THEN acc ELSE DecimalAcc(Tail(s), 10 * acc + DigitVal(s[1]))

\* int(text): ok is FALSE where Python raises ValueError.  The texts of the
\* model are unsigned digit strings or not numbers at all.
IntOfStr(s) ==
  IF s /= <<>> /\ \A i \in 1..Len(s) : s[i] \in Digits
  THEN [ok |-> TRUE, val |-> DecimalAcc(s, 0)]
  ELSE [ok |-> FALSE, val |-> 0]

\* float(text), the result counted in tenths: "0.5" is 5, "1" is 10.  ok is
\* FALSE where Python raises ValueError.  The texts of the model carry at
\* most one decimal place.
FloatOfStr(s) ==
  LET parts == Split(s, ".")
  IN IF Len(parts) = 1 /\ IntOfStr(parts[1]).ok
     THEN [ok |-> TRUE, val |-> 10 * IntOfStr(parts[1]).val]
     ELSE IF /\ Len(parts) = 2
             /\ IntOfStr(parts[1]).ok
             /\ Len(parts[2]) = 1
             /\ parts[2][1] \in Digits
     THEN [ok |-> TRUE,
           val |-> 10 * IntOfStr(parts[1]).val + DigitVal(parts[2][1])]
     ELSE [ok |-> FALSE, val |-> 0]

\* ------------------------------------------------------------ utils/config
\* hard-coded defaults of the accessors
DefaultMaxFiles == 50
DefaultModel == "gpt-4-turbo-preview"
\* 0.3, in tenths
DefaultTemperature == 3

\* Config._default_config: the keys an accessor of the model reads
default_config ==
  [enabled |-> Some(TRUE),
   max_files |-> Some(50),
   skip_patterns |-> Some(<< <<"*", ".", "min", ".", "js">>,
                            <<"*", ".", "min", ".", "css">>,
                            <<"package-lock", ".", "json">>,
                            <<"yarn", ".", "lock">>,
                            <<"*", ".", "generated", ".", "*">>,
                            <<"dist", "/", "*", "*">>,
                            <<"build", "/", "*", "*">> >>),
   llm |-> Some([model |-> Some("gpt-4-turbo-preview"),
                 temperature |-> Some(3)])]

\* yaml.safe_load(f) or {} of an empty file
empty_config ==
  [enabled |-> None, max_files |-> None, skip_patterns |-> None, llm |-> None]

\* Config._load_config: the mapping of the file, the defaults when the file
\* does not exist; ok is FALSE when the YAML does not parse (the exception
\* is not caught there).
load_config(file) ==
  IF file.status = "missing" THEN [ok |-> TRUE, val |-> default_config]
  ELSE IF file.status = "invalid" THEN [ok |-> FALSE, val |-> empty_config]
  ELSE [ok |-> TRUE, val |-> file.content]

\* Config.is_enabled: no environment variable is consulted
is_enabled(e, c) == Get(c.enabled, TRUE)

\* Config.llm_model
llm_model(e, c) ==
  Get(e.LLM_MODEL, Get(Get(c.llm, [model |-> None, temperature |-> None]).model,
                       DefaultModel))

\* Config.llm_temperature (tenths); ok is FALSE when float() raises
llm_temperature(e, c) ==
  IF IsSet(e.LLM_TEMPERATURE) THEN FloatOfStr(e.LLM_TEMPERATURE[1])
  ELSE [ok |-> TRUE,
        val |-> Get(Get(c.llm, [model |-> None, temperature |-> None]).temperature,
                    DefaultTemperature)]

\* max_files with the file consulted before the environment
max_files_FileFirst(e, c) ==
  IF IsSet(c.max_files) THEN [ok |-> TRUE, val |-> c.max_files[1]]
  ELSE IF IsSet(e.MAX_FILES_PER_PR) THEN IntOfStr(e.MAX_FILES_PER_PR[1])
  ELSE [ok |-> TRUE, val |-> DefaultMaxFiles]

\* Config.max_files; ok is FALSE when int() raises
max_files(e, c) ==
  IF IsSet(e.MAX_FILES_PER_PR) THEN IntOfStr(e.MAX_FILES_PER_PR[1])
  ELSE [ok |-> TRUE, val |-> Get(c.max_files, DefaultMaxFiles)]

\* Config.llm_base_url
llm_base_url(e, c) == Get(e.LLM_BASE_URL, "")

\* Config.skip_patterns
skip_patterns(e, c) == Get(c.skip_patterns, <<>>)

\* Config.github_token: ok is FALSE when the accessor raises ValueError
github_token(e, c) ==
  [ok |-> IsSet(e.GITHUB_TOKEN) /\ e.GITHUB_TOKEN[1] /= "",
   val |-> Get(e.GITHUB_TOKEN, "")]

\* Config.llm_api_key: LLM_API_KEY or OPENAI_API_KEY
llm_api_key(e, c) ==
  LET key == IF Get(e.LLM_API_KEY, "") /= "" THEN Get(e.LLM_API_KEY, "")
             ELSE Get(e.OPENAI_API_KEY, "")
  IN [ok |-> key /= "", val |-> key]

\* ----------------------------------------------------------- utils/filters
RECURSIVE fnmatch(_, _)
\* fnmatch.fnmatch(name, pat) on a POSIX host (no case folding): the whole
\* name must match; "*" matches any run of symbols, "/" included.  The
\* patterns of the model contain no "?" and no "[...]".
fnmatch(name, pat) ==
  IF pat = <<>> THEN name = <<>>
  ELSE IF pat[1] = "*"
       THEN \/ fnmatch(name, Tail(pat))
            \/ name /= <<>> /\ fnmatch(Tail(name), pat)
  ELSE /\ name /= <<>>
       /\ name[1] = pat[1]
       /\ fnmatch(Tail(name), Tail(pat))

\* Path(file_path).name: the last component
PathName(path) == LET parts == Split(path, "/") IN parts[Len(parts)]

\* [str(p) for p in Path(file_path).parents]: nearest ancestor first, "."
\* last (the paths of the model are relative)
PathParents(path) ==
  LET parts == Split(path, "/")
      n == Len(parts)
  IN [k \in 1..n |->
        IF k = n THEN <<".">> ELSE Join(SubSeq(parts, 1, n - k), "/")]

\* should_skip_file
should_skip_file(file_path, patterns) ==
  \E i \in 1..Len(patterns) :
    \/ fnmatch(PathName(file_path), patterns[i])
    \/ fnmatch(file_path, patterns[i])
    \/ \E k \in 1..Len(PathParents(file_path)) :
         fnmatch(PathParents(file_path)[k], RStrip(patterns[i], {"/", "*"}))

\* extension_map of get_file_language, keyed by the extension without its dot
extension_map(ext) ==
  CASE ext = "py" -> "Python" [] ext = "js" -> "JavaScript"
    [] ext = "ts" -> "TypeScript" [] ext = "tsx" -> "TypeScript React"
    [] ext = "jsx" -> "JavaScript React" [] ext = "java" -> "Java"
    [] ext = "go" -> "Go" [] ext = "rs" -> "Rust" [] ext = "rb" -> "Ruby"
    [] ext = "php" -> "PHP" [] ext = "cs" -> "C#" [] ext = "cpp" -> "C++"
    [] ext = "c" -> "C" [] ext = "h" -> "C/C++ Header"
    [] ext = "swift" -> "Swift" [] ext = "kt" -> "Kotlin"
    [] ext = "scala" -> "Scala" [] ext = "sql" -> "SQL" [] ext = "sh" -> "Shell"
    [] ext = "yml" -> "YAML" [] ext = "yaml" -> "YAML" [] ext = "json" -> "JSON"
    [] ext = "xml" -> "XML" [] ext = "html" -> "HTML" [] ext = "css" -> "CSS"
    [] ext = "scss" -> "SCSS" [] ext = "md" -> "Markdown"
    [] OTHER -> "Unknown"

\* get_file_language: the suffix is what follows the last "." of the name,
\* unless that dot begins or ends the name.  The names of the model are in
\* lower case, so .lower() changes nothing.
get_file_language(file_path) ==
  LET name == PathName(file_path)
      dots == {i \in 1..Len(name) : name[i] = "."}
  IN IF dots = {} THEN "Unknown"
     ELSE LET i == CHOOSE d \in dots : \A o \in dots : o <= d
          IN IF 1 < i /\ i = Len(name) - 1
             THEN extension_map(name[Len(name)])
             ELSE "Unknown"

\* ------------------------------------------------------------ core/chunker
\* the size limit of chunk_pr_files
MaxChanges == 500

\* the chunk chunk_pr_files builds for one file
MakeChunk(file, pr_title, pr_description) ==
  [file_path |-> file.filename,
   file_language |-> get_file_language(file.filename),
   file_status |-> file.status,
   additions |-> file.additions,
   deletions |-> file.deletions,
   patch |-> file.patch[1],
   pr_title |-> pr_title,
   pr_description |-> pr_description]

\* KeepFile with the size test off by one
KeepFile_Below(file, patterns) ==
  /\ ~should_skip_file(file.filename, patterns)
  /\ ~(file.patch = None \/ file.patch = Some(<<>>))
  /\ ~(file.changes >= MaxChanges)

\* the three tests of the loop body, in the order of the code: a file is
\* kept when none of them hits
KeepFile(file, patterns) ==
  /\ ~should_skip_file(file.filename, patterns)
  /\ ~(file.patch = None \/ file.patch = Some(<<>>))
  /\ ~(file.changes > MaxChanges)

RECURSIVE chunk_pr_files(_, _, _, _)
\* DiffChunker.chunk_pr_files
chunk_pr_files(files, patterns, pr_title, pr_description) ==
  IF files = <<>> THEN <<>>
  ELSE (IF KeepFile(files[1], patterns)
        THEN <<MakeChunk(files[1], pr_title, pr_description)>>
        ELSE <<>>)
       \o chunk_pr_files(Tail(files), patterns, pr_title, pr_description)

\* ---------------------------------------------------------- core/responder
\* the five section headers, one symbol each, and the key each one opens
Headers ==
  {"PR_SUMMARY:", "MAJOR_ISSUES:", "MINOR_ISSUES:", "TEST_SUGGESTIONS:",
   "OVERALL_ASSESSMENT:"}

HeaderKey(h) ==
  CASE h = "PR_SUMMARY:" -> "PR_SUMMARY"
    [] h = "MAJOR_ISSUES:" -> "MAJOR_ISSUES"
    [] h = "MINOR_ISSUES:" -> "MINOR_ISSUES"
    [] h = "TEST_SUGGESTIONS:" -> "TEST_SUGGESTIONS"
    [] h = "OVERALL_ASSESSMENT:" -> "OVERALL_ASSESSMENT"

SectionKeys ==
  {"PR_SUMMARY", "MAJOR_ISSUES", "MINOR_ISSUES", "TEST_SUGGESTIONS",
   "OVERALL_ASSESSMENT"}

ListKeys == {"MAJOR_ISSUES", "MINOR_ISSUES", "TEST_SUGGESTIONS"}

\* Commit that keeps what an earlier section of the same name committed
Commit_KeepFirst(sections, current_section, current_content) ==
  IF current_section = None THEN sections
  ELSE IF sections[current_section[1]] /= None THEN sections
  ELSE [sections EXCEPT
          ![current_section[1]] = Some(Strip(Join(current_content, NL)))]

\* sections[current_section] = '\n'.join(current_content).strip(), done only
\* when a section is active
Commit(sections, current_section, current_content) ==
  IF current_section = None THEN sections
  ELSE [sections EXCEPT
          ![current_section[1]] = Some(Strip(Join(current_content, NL)))]

RECURSIVE ParseLines(_, _, _, _)
\* the loop of _parse_review over review_text.split('\n') and the commit of
\* the last section after it
ParseLines(lines, sections, current_section, current_content) ==
  IF lines = <<>> THEN Commit(sections, current_section, current_content)
  ELSE LET line == Strip(lines[1])
       IN IF line /= <<>> /\ line[1] \in Headers
          THEN ParseLines(Tail(lines),
                          Commit(sections, current_section, current_content),
                          Some(HeaderKey(line[1])), <<>>)
          ELSE IF current_section /= None /\ line /= <<>>
          THEN ParseLines(Tail(lines), sections, current_section,
                          Append(current_content, line))
          ELSE ParseLines(Tail(lines), sections, current_section,
                          current_content)

RECURSIVE ParseItems(_)
\* [item.strip('- ').strip() for item in lines if item.strip().startswith('-')]
ParseItems(lines) ==
  IF lines = <<>> THEN <<>>
  ELSE (IF StartsWith(Strip(lines[1]), "-")
        THEN <<Strip(StripChars(lines[1], {"-", " "}))>>
        ELSE <<>>)
       \o ParseItems(Tail(lines))

\* ResponseFormatter._parse_review: a mapping from the section keys to an
\* optional value, a text for the scalar keys and a list of items for the
\* list keys
parse_review(review_text) ==
  LET sections == ParseLines(Split(review_text, NL),
                             [k \in SectionKeys |-> None], None, <<>>)
  IN [k \in SectionKeys |->
        IF k \in ListKeys /\ sections[k] /= None
        THEN Some(ParseItems(Split(sections[k][1], NL)))
        ELSE sections[k]]

\* f"- **{file_path}**: {item}"
ItemLine(file_path, item) ==
  <<"-", " ", "*", "*">> \o file_path \o <<"*", "*", ":", " ">> \o item

\* f"**{file_path}**: {summary}"
SummaryLine(file_path, summary) ==
  <<"*", "*">> \o file_path \o <<"*", "*", ":", " ">> \o summary

\* sections.get(key) is truthy: present and neither '' nor []
Truthy(sections, key) == sections[key] /= None /\ sections[key][1] /= <<>>

\* ItemLines with the items of a review in reverse order
ItemLines_Reversed(review, sections, key) ==
  IF Truthy(sections, key)
  THEN [j \in 1..Len(sections[key][1]) |->
          ItemLine(review.file_path,
                   sections[key][1][Len(sections[key][1]) + 1 - j])]
  ELSE <<>>

\* the lines one review adds to the list all_<key>
ItemLines(review, sections, key) ==
  IF Truthy(sections, key)
  THEN [j \in 1..Len(sections[key][1]) |->
          ItemLine(review.file_path, sections[key][1][j])]
  ELSE <<>>

RECURSIVE Aggregate(_, _)
\* the loop of aggregate_reviews: the five lists it accumulates
Aggregate(reviews, acc) ==
  IF reviews = <<>> THEN acc
  ELSE LET review == reviews[1]
           sections == parse_review(review.review[1])
       IN Aggregate(Tail(reviews),
            [summaries |->
               acc.summaries \o
               (IF Truthy(sections, "PR_SUMMARY")
                THEN <<SummaryLine(review.file_path, sections["PR_SUMMARY"][1])>>
                ELSE <<>>),
             major_issues |->
               acc.major_issues \o ItemLines(review, sections, "MAJOR_ISSUES"),
             minor_issues |->
               acc.minor_issues \o ItemLines(review, sections, "MINOR_ISSUES"),
             test_suggestions |->
               acc.test_suggestions
               \o ItemLines(review, sections, "TEST_SUGGESTIONS"),
             assessments |->
               acc.assessments \o
               (IF Truthy(sections, "OVERALL_ASSESSMENT")
                THEN <<sections["OVERALL_ASSESSMENT"][1]>>
                ELSE <<>>)])

EmptyLists ==
  [summaries |-> <<>>, major_issues |-> <<>>, minor_issues |-> <<>>,
   test_suggestions |-> <<>>, assessments |-> <<>>]

\* the headings and fixed lines of the report, one symbol each (the
\* pictographs of the source are left out of the symbols' names)
TitleLine == <<"# AI Code Review">>
MajorHeading == <<"## Major Issues">>
MinorHeading == <<"## Minor Issues & Suggestions">>
TestHeading == <<"## Test Suggestions">>
AssessmentHeading == <<"## Overall Assessment">>
NoIssuesHeading == <<"## No Issues Found">>
NoIssuesText ==
  <<"The code looks good! No major issues or suggestions at this time.">>
Rule == <<"---">>
FooterLine ==
  <<"*This review was generated by AI. Please use your judgment and verify suggestions.*">>

\* one optional block of _build_comment
Section(heading, lines) ==
  IF lines /= <<>> THEN <<heading, <<>>>> \o lines \o << <<>> >> ELSE <<>>

\* comment_parts with the "no issues" block also held back by an assessment
comment_parts_NoAssessment(pr, lists, timestamp) ==
  <<TitleLine,
    <<>>,
    <<"**PR**: #", pr.number, " - ", pr.title>>,
    <<"**Author**: @", pr.author>>,
    <<"**Files Changed**: ", pr.changed_files, " (+", pr.additions, " -",
      pr.deletions, ")">>,
    <<"**Reviewed**: ", timestamp>>,
    <<>>,
    Rule,
    <<>> >>
  \o Section(MajorHeading, lists.major_issues)
  \o Section(MinorHeading, lists.minor_issues)
  \o Section(TestHeading, lists.test_suggestions)
  \o Section(AssessmentHeading, lists.assessments)
  \o (IF /\ lists.major_issues = <<>>
         /\ lists.minor_issues = <<>>
         /\ lists.test_suggestions = <<>>
         /\ lists.assessments = <<>>
      THEN <<NoIssuesHeading, <<>>, NoIssuesText, <<>>>>
      ELSE <<>>)
  \o <<Rule, <<>>, FooterLine>>

\* comment_parts of ResponseFormatter._build_comment
comment_parts(pr, lists, timestamp) ==
  <<TitleLine,
    <<>>,
    <<"**PR**: #", pr.number, " - ", pr.title>>,
    <<"**Author**: @", pr.author>>,
    <<"**Files Changed**: ", pr.changed_files, " (+", pr.additions, " -",
      pr.deletions, ")">>,
    <<"**Reviewed**: ", timestamp>>,
    <<>>,
    Rule,
    <<>> >>
  \o Section(MajorHeading, lists.major_issues)
  \o Section(MinorHeading, lists.minor_issues)
  \o Section(TestHeading, lists.test_suggestions)
  \o Section(AssessmentHeading, lists.assessments)
  \o (IF /\ lists.major_issues = <<>>
         /\ lists.minor_issues = <<>>
         /\ lists.test_suggestions = <<>>
      THEN <<NoIssuesHeading, <<>>, NoIssuesText, <<>>>>
      ELSE <<>>)
  \o <<Rule, <<>>, FooterLine>>

\* ResponseFormatter._build_comment
build_comment(pr, lists, timestamp) ==
  Join(comment_parts(pr, lists, timestamp), NL)

\* ResponseFormatter.aggregate_reviews; ok is FALSE when a review text is
\* None, on which review_text.split raises AttributeError
aggregate_reviews(reviews, pr, timestamp) ==
  IF \E i \in 1..Len(reviews) : reviews[i].review = None
  THEN [ok |-> FALSE, lists |-> EmptyLists, comment |-> <<>>]
  ELSE LET lists == Aggregate(reviews, EmptyLists)
       IN [ok |-> TRUE, lists |-> lists,
           comment |-> build_comment(pr, lists, timestamp)]

\* ----------------------------------------------------------- core/reviewer
\* str(e) of the IndexError that response.choices[0] raises on a response
\* with no choices
IndexErrorText == <<"list index out of range">>

\* a placeholder that files the failure as a major issue of the review
ErrorPlaceholder_AsIssue(file_path, failure_text) ==
  <<"MAJOR_ISSUES:", NL, "-", " ", "Error", " ", "reviewing", " ">>
  \o file_path \o <<":", " ">> \o failure_text

\* f"Error reviewing {chunk['file_path']}: {str(e)}"
ErrorPlaceholder(file_path, failure_text) ==
  <<"Error", " ", "reviewing", " ">> \o file_path \o <<":", " ">> \o failure_text

\* review_chunk returning the bare failure text of a call that raised
review_chunk_Unlabelled(chunk, outcome) ==
  CASE outcome.kind = "text" -> Some(outcome.text)
    [] outcome.kind = "none_content" -> None
    [] outcome.kind = "no_choices" ->
         Some(ErrorPlaceholder(chunk.file_path, IndexErrorText))
    [] outcome.kind = "raise" -> Some(outcome.text)

\* LLMReviewer.review_chunk on one outcome of the completion call: the call
\* raises (kind "raise", str(e) in text), the response has no choices, its
\* message content is None, or it carries a text.  The result is optional:
\* None is Python's None.
review_chunk(chunk, outcome) ==
  CASE outcome.kind = "text" -> Some(outcome.text)
    [] outcome.kind = "none_content" -> None
    [] outcome.kind = "no_choices" ->
         Some(ErrorPlaceholder(chunk.file_path, IndexErrorText))
    [] outcome.kind = "raise" ->
         Some(ErrorPlaceholder(chunk.file_path, outcome.text))

\* the record review_all_chunks appends for one chunk
MakeReview(chunk, outcome) ==
  [file_path |-> chunk.file_path,
   file_language |-> chunk.file_language,
   review |-> review_chunk(chunk, outcome)]

\* ------------------------------------------------------------ core/fetcher
\* what get_project_info returns when the hosting API raises
FallbackProjectInfo == [name |-> "Unknown", language |-> "Unknown"]

\* ------------------------------------------------------------------ inputs
\* sequences over S of length at most n
SeqsUpTo(S, n) == UNION {[1..k -> S] : k \in 0..n}

\* a file list of the hosting API names no file twice
DistinctNames(fs) ==
  \A i, j \in 1..Len(fs) : i /= j => fs[i].filename /= fs[j].filename

SomePatch == <<"@@", NL, "+", "x">>

File(name, patch, changes) ==
  [filename |-> name, status |-> "modified", additions |-> changes,
   deletions |-> 0, changes |-> changes, patch |-> patch]

AppJs == <<"src", "/", "app", ".", "js">>
APy == <<"a", ".", "py">>
BundleJs == <<"dist", "/", "bundle", ".", "js">>
BigPy == <<"big", ".", "py">>
ImgPng == <<"img", ".", "png">>
AppMinJs == <<"app", ".", "min", ".", "js">>

\* the files a fetched change set is made of in the pipeline: two that pass
\* the filters (one of them with exactly 500 changes), one under dist/, one
\* with 501 changes, one without a patch
PipelineFiles ==
  {File(AppJs, Some(SomePatch), 500),
   File(APy, Some(SomePatch), 3),
   File(BundleJs, Some(SomePatch), 3),
   File(BigPy, Some(SomePatch), 501),
   File(ImgPng, None, 0)}

PipelineFileLists ==
  {fs \in SeqsUpTo(PipelineFiles, MaxFiles) : DistinctNames(fs)}

\* the files chunk_pr_files is tried on alone: every name with every kind
\* of patch and every change count around the limit
ChunkFileUniverse ==
  {File(n, p, c) : n \in {AppJs, APy, BundleJs, AppMinJs},
                   p \in {None, Some(<<>>), Some(SomePatch)},
                   c \in {0, 500, 501}}

ChunkFileLists ==
  {fs \in SeqsUpTo(ChunkFileUniverse, MaxChunkFiles) : DistinctNames(fs)}

DistPattern == <<"dist", "/", "*", "*">>
MinJsPattern == <<"*", ".", "min", ".", "js">>

PatternLists ==
  {<<>>, <<DistPattern>>, <<MinJsPattern, DistPattern>>,
   default_config.skip_patterns[1]}

\* review texts a completion call returns
FullText ==
  <<"PR_SUMMARY:", NL, "sum", NL,
    "MAJOR_ISSUES:", NL, "-", " ", "a", NL, "-", " ", "b", NL,
    "MINOR_ISSUES:", NL, "-", " ", "c", NL,
    "TEST_SUGGESTIONS:", NL, "-", " ", "d", NL,
    "OVERALL_ASSESSMENT:", NL, "fine">>
AssessmentOnlyText == <<"OVERALL_ASSESSMENT:", NL, "fine">>
NoItemText == <<"MAJOR_ISSUES:", NL, "none">>
PlainText == <<"looks", " ", "good">>
MinorOnlyText == <<"intro", NL, "MINOR_ISSUES:", " ", "x", NL, " ", "-", "e", NL, NL, "-", " ", "f">>
TestOnlyText == <<"TEST_SUGGESTIONS:", NL, "-", " ", "g">>

ReviewTexts ==
  {FullText, AssessmentOnlyText, NoItemText, PlainText, MinorOnlyText,
   TestOnlyText}

\* str(e) of the exceptions a completion call raises
FailureTexts ==
  {<<"timeout">>, <<"bad", NL, "MAJOR_ISSUES:", NL, "-", " ", "z">>}

\* the outcomes of one completion call
Outcomes ==
  {[kind |-> "text", text |-> t] : t \in ReviewTexts}
  \cup {[kind |-> "raise", text |-> t] : t \in FailureTexts}
  \cup {[kind |-> "no_choices", text |-> <<>>],
        [kind |-> "none_content", text |-> <<>>]}

\* datetime.now() as _build_comment formats it
Timestamps == {"2024-01-01 00:00:00 UTC", "2024-01-01 00:00:01 UTC"}

\* the process environment: every variable an accessor or main reads, and
\* AI_REVIEW_ENABLED, a variable no code reads
BaseEnv ==
  [PR_NUMBER |-> Some(<<"7">>), REPO_NAME |-> Some("o/r"),
   GITHUB_TOKEN |-> Some("t"), LLM_API_KEY |-> Some("k"),
   OPENAI_API_KEY |-> None, LLM_BASE_URL |-> None, LLM_MODEL |-> None,
   LLM_TEMPERATURE |-> None, MAX_FILES_PER_PR |-> None,
   AI_REVIEW_ENABLED |-> None]

PipelineEnvs ==
  {BaseEnv,
   [BaseEnv EXCEPT !.PR_NUMBER = None],
   [BaseEnv EXCEPT !.PR_NUMBER = Some(<<"0">>)],
   [BaseEnv EXCEPT !.PR_NUMBER = Some(<<"x">>)],
   [BaseEnv EXCEPT !.REPO_NAME = None],
   [BaseEnv EXCEPT !.REPO_NAME = Some("")],
   [BaseEnv EXCEPT !.PR_NUMBER = None, !.REPO_NAME = None],
   [BaseEnv EXCEPT !.GITHUB_TOKEN = None],
   [BaseEnv EXCEPT !.LLM_API_KEY = None],
   [BaseEnv EXCEPT !.LLM_API_KEY = None, !.OPENAI_API_KEY = Some("k2")],
   [BaseEnv EXCEPT !.LLM_TEMPERATURE = Some(<<"hot">>)],
   [BaseEnv EXCEPT !.MAX_FILES_PER_PR = Some(<<"2">>)],
   [BaseEnv EXCEPT !.MAX_FILES_PER_PR = Some(<<"many">>)]}

ConfigEnvs ==
  {[BaseEnv EXCEPT !.LLM_MODEL = m, !.LLM_TEMPERATURE = t,
                   !.MAX_FILES_PER_PR = f, !.AI_REVIEW_ENABLED = a] :
     m \in {None, Some("env-model"), Some("")},
     t \in {None, Some(<<"0", ".", "7">>), Some(<<"1">>), Some(<<"hot">>)},
     f \in {None, Some(<<"2">>), Some(<<"1", "0">>), Some(<<"many">>)},
     a \in {None, Some("false"), Some("true")}}

\* the configuration file: absent, not parsable, or a mapping
FileOf(content) == [status |-> "ok", content |-> content]

PipelineConfigFiles ==
  {[status |-> "missing", content |-> empty_config],
   [status |-> "invalid", content |-> empty_config],
   FileOf([empty_config EXCEPT !.enabled = Some(FALSE)]),
   FileOf([empty_config EXCEPT !.max_files = Some(1),
                               !.skip_patterns = Some(<<DistPattern>>)])}

ConfigFiles ==
  {[status |-> "missing", content |-> empty_config]}
  \cup {FileOf([enabled |-> en, max_files |-> mf, skip_patterns |-> None,
                llm |-> l]) :
          en \in {None, Some(TRUE), Some(FALSE)},
          mf \in {None, Some(1), Some(50)},
          l \in {None,
                 Some([model |-> None, temperature |-> None]),
                 Some([model |-> Some("file-model"), temperature |-> Some(9)])}}

\* the change set and the repository behind the hosting API
PullRequest(files) ==
  [number |-> "7", title |-> "Add feature", description |-> "",
   author |-> "octocat", files |-> files,
   additions |-> "10", deletions |-> "2",
   changed_files |-> ToString(Len(files))]

ProjectInfo ==
  [name |-> "r", full_name |-> "o/r", description |-> "",
   language |-> "Python", default_branch |-> "main"]

\* ------------------------------------------------------------------- state
VARIABLES
  pc,            \* position of main: "start", "loaded", "init", "fetch",
                 \* "info", "count", "chunk", "review", "format", "post", "done"
  env,           \* the process environment
  cfgFile,       \* the configuration file on disk
  config,        \* Config.config
  pr_number,     \* main's pr_number
  chunker,       \* the DiffChunker: its skip_patterns
  reviewer,      \* the LLMReviewer: model, temperature, base_url
  pr_data,       \* optional: what get_pr_data returned
  project_info,  \* optional: what get_project_info returned
  chunks,        \* what chunk_pr_files returned
  reviews,       \* the list review_all_chunks builds
  lists,         \* the five lists of aggregate_reviews
  comment,       \* main's comment
  posted,        \* the comments on the change set, oldest first
  exit_status,   \* optional: the exit status of the process
  log,           \* the calls made on the collaborators, oldest first
  outcomes,      \* the outcome of each completion call made, oldest first
  failed,        \* the hosting-API operations that raised
  call,          \* the arguments of a helper called on its own
  returned       \* optional: what that helper returned

vars ==
  <<pc, env, cfgFile, config, pr_number, chunker, reviewer, pr_data,
    project_info, chunks, reviews, lists, comment, posted, exit_status, log,
    outcomes, failed, call, returned>>

\* no helper is called on its own
NoCall == [op |-> "none"]

\* the state of a process about to enter main
Fresh ==
  /\ config = empty_config
  /\ pr_number = 0
  /\ chunker = [skip_patterns |-> <<>>]
  /\ reviewer = [model |-> "", temperature |-> 0, base_url |-> ""]
  /\ pr_data = None
  /\ project_info = None
  /\ chunks = <<>>
  /\ reviews = <<>>
  /\ lists = EmptyLists
  /\ comment = <<>>
  /\ posted = <<>>
  /\ exit_status = None
  /\ log = <<>>
  /\ outcomes = <<>>
  /\ failed = {}
  /\ call = NoCall
  /\ returned = None

Init ==
  /\ pc = "start"
  /\ env \in PipelineEnvs
  /\ cfgFile \in PipelineConfigFiles
  /\ Fresh

\* how often a collaborator was called
Count(event) == Cardinality({i \in 1..Len(log) : log[i] = event})

\* the process ends with the given status and nothing else changes
Exit(code) ==
  /\ pc' = "done"
  /\ exit_status' = Some(code)

\* ----------------------------------------------------------------- main.py
\* main, line 21: Config().  A YAML error is an exception main catches.
LoadConfig ==
  /\ pc = "start"
  /\ UNCHANGED <<call, returned>>
  /\ LET r == load_config(cfgFile)
     IN IF r.ok
        THEN /\ config' = r.val
             /\ pc' = "loaded"
             /\ UNCHANGED exit_status
        ELSE /\ Exit(1)
             /\ UNCHANGED config
  /\ UNCHANGED <<env, cfgFile, pr_number, chunker, reviewer, pr_data,
                 project_info, chunks, reviews, lists, comment, posted, log,
                 outcomes, failed>>

\* CheckEnvironment exiting only when both identifiers are missing
CheckEnvironment_Both ==
  /\ pc = "loaded"
  /\ UNCHANGED <<call, returned>>
  /\ IF ~is_enabled(env, config)
     THEN Exit(0) /\ UNCHANGED pr_number
     ELSE LET n == IF IsSet(env.PR_NUMBER) THEN IntOfStr(env.PR_NUMBER[1])
                   ELSE [ok |-> TRUE, val |-> 0]
              repo_name == Get(env.REPO_NAME, "")
          IN IF ~n.ok THEN Exit(1) /\ UNCHANGED pr_number
             ELSE IF n.val = 0 /\ repo_name = ""
             THEN Exit(1) /\ UNCHANGED pr_number
             ELSE /\ pr_number' = n.val
                  /\ pc' = "init"
                  /\ UNCHANGED exit_status
  /\ UNCHANGED <<env, cfgFile, config, chunker, reviewer, pr_data,
                 project_info, chunks, reviews, lists, comment, posted, log,
                 outcomes, failed>>

\* main, lines 23-36: the enabled check, then PR_NUMBER and REPO_NAME
CheckEnvironment ==
  /\ pc = "loaded"
  /\ UNCHANGED <<call, returned>>
  /\ IF ~is_enabled(env, config)
     THEN Exit(0) /\ UNCHANGED pr_number
     ELSE LET n == IF IsSet(env.PR_NUMBER) THEN IntOfStr(env.PR_NUMBER[1])
                   ELSE [ok |-> TRUE, val |-> 0]
              repo_name == Get(env.REPO_NAME, "")
          IN IF ~n.ok THEN Exit(1) /\ UNCHANGED pr_number
             ELSE IF n.val = 0 \/ repo_name = ""
             THEN Exit(1) /\ UNCHANGED pr_number
             ELSE /\ pr_number' = n.val
                  /\ pc' = "init"
                  /\ UNCHANGED exit_status
  /\ UNCHANGED <<env, cfgFile, config, chunker, reviewer, pr_data,
                 project_info, chunks, reviews, lists, comment, posted, log,
                 outcomes, failed>>

\* main, lines 38-50: the four components.  PRFetcher.__init__ asks the
\* hosting API for the repository; an exception of any constructor or
\* accessor is caught by main.  The prompt files are taken to be readable.
InitComponents ==
  /\ pc = "init"
  /\ UNCHANGED <<call, returned>>
  /\ IF ~github_token(env, config).ok
     THEN Exit(1) /\ UNCHANGED <<log, chunker, reviewer, failed>>
     ELSE /\ log' = Append(log, "get_repo")
          /\ \E repo_ok \in BOOLEAN :
               IF ~repo_ok
               THEN /\ failed' = failed \cup {"get_repo"}
                    /\ Exit(1)
                    /\ UNCHANGED <<chunker, reviewer>>
               ELSE IF /\ llm_api_key(env, config).ok
                       /\ llm_temperature(env, config).ok
               THEN /\ chunker' = [skip_patterns |-> skip_patterns(env, config)]
                    /\ reviewer' =
                         [model |-> llm_model(env, config),
                          temperature |-> llm_temperature(env, config).val,
                          base_url |-> llm_base_url(env, config)]
                    /\ pc' = "fetch"
                    /\ UNCHANGED <<exit_status, failed>>
               ELSE Exit(1) /\ UNCHANGED <<chunker, reviewer, failed>>
  /\ UNCHANGED <<env, cfgFile, config, pr_number, pr_data, project_info,
                 chunks, reviews, lists, comment, posted, outcomes>>

\* main, line 54: PRFetcher.get_pr_data, which logs and re-raises a failure
\* of the hosting API
FetchPR ==
  /\ pc = "fetch"
  /\ UNCHANGED <<call, returned>>
  /\ log' = Append(log, "get_pr_data")
  /\ \/ /\ failed' = failed \cup {"get_pr_data"}
        /\ Exit(1)
        /\ UNCHANGED pr_data
     \/ \E files \in PipelineFileLists :
          /\ pr_data' = Some(PullRequest(files))
          /\ pc' = "info"
          /\ UNCHANGED <<exit_status, failed>>
  /\ UNCHANGED <<env, cfgFile, config, pr_number, chunker, reviewer,
                 project_info, chunks, reviews, lists, comment, posted,
                 outcomes>>

\* main, line 55: PRFetcher.get_project_info, which logs a failure of the
\* hosting API and returns the fallback
GetProjectInfo ==
  /\ pc = "info"
  /\ UNCHANGED <<call, returned>>
  /\ log' = Append(log, "get_project_info")
  /\ \E api_ok \in BOOLEAN :
       IF api_ok
       THEN project_info' = Some(ProjectInfo) /\ UNCHANGED failed
       ELSE /\ project_info' = Some(FallbackProjectInfo)
            /\ failed' = failed \cup {"get_project_info"}
  /\ pc' = "count"
  /\ UNCHANGED <<env, cfgFile, config, pr_number, chunker, reviewer, pr_data,
                 chunks, reviews, lists, comment, posted, exit_status,
                 outcomes>>

\* the notice of main, lines 60-71, line by line
TooLargeNotice(file_count, maximum) ==
  Join(<<TitleLine,
         <<"            ">>,
         <<"**PR Too Large**">>,
         <<>>,
         <<"This PR has ", ToString(file_count),
           " files, which exceeds the maximum of ", ToString(maximum),
           " files for automated review.">>,
         <<>>,
         <<"Please consider:">>,
         <<"- Breaking this PR into smaller, focused changes">>,
         <<"- Requesting manual review from team members">>,
         <<>>,
         <<"*Automated review is skipped for very large PRs to ensure quality feedback.*">>,
         <<>> >>, NL)

\* PostAndExit with the failure of the hosting API swallowed
PostAndExit_Swallow(body) ==
  /\ log' = Append(log, "post_review_comment")
  /\ \/ /\ posted' = Append(posted, body)
        /\ Exit(0)
        /\ UNCHANGED failed
     \/ /\ failed' = failed \cup {"post_review_comment"}
        /\ Exit(0)
        /\ UNCHANGED posted

\* PRFetcher.post_review_comment as main uses it: the comment is created, or
\* the hosting API fails, the failure is re-raised and main exits with 1
PostAndExit(body) ==
  /\ log' = Append(log, "post_review_comment")
  /\ \/ /\ posted' = Append(posted, body)
        /\ Exit(0)
        /\ UNCHANGED failed
     \/ /\ failed' = failed \cup {"post_review_comment"}
        /\ Exit(1)
        /\ UNCHANGED posted

\* CheckFileCount with the notice already at the maximum
CheckFileCount_AtLeast ==
  /\ pc = "count"
  /\ UNCHANGED <<call, returned>>
  /\ LET m == max_files(env, config)
         n == Len(pr_data[1].files)
     IN IF ~m.ok
        THEN Exit(1) /\ UNCHANGED <<comment, posted, log, failed>>
        ELSE IF n >= m.val
        THEN /\ comment' = TooLargeNotice(n, m.val)
             /\ PostAndExit(TooLargeNotice(n, m.val))
        ELSE /\ pc' = "chunk"
             /\ UNCHANGED <<comment, posted, log, exit_status, failed>>
  /\ UNCHANGED <<env, cfgFile, config, pr_number, chunker, reviewer, pr_data,
                 project_info, chunks, reviews, lists, outcomes>>

\* main, lines 57-73: the file count against config.max_files
CheckFileCount ==
  /\ pc = "count"
  /\ UNCHANGED <<call, returned>>
  /\ LET m == max_files(env, config)
         n == Len(pr_data[1].files)
     IN IF ~m.ok
        THEN Exit(1) /\ UNCHANGED <<comment, posted, log, failed>>
        ELSE IF n > m.val
        THEN /\ comment' = TooLargeNotice(n, m.val)
             /\ PostAndExit(TooLargeNotice(n, m.val))
        ELSE /\ pc' = "chunk"
             /\ UNCHANGED <<comment, posted, log, exit_status, failed>>
  /\ UNCHANGED <<env, cfgFile, config, pr_number, chunker, reviewer, pr_data,
                 project_info, chunks, reviews, lists, outcomes>>

\* ChunkFiles without the early return on an empty chunk list
ChunkFiles_NoReturn ==
  /\ pc = "chunk"
  /\ UNCHANGED <<call, returned>>
  /\ log' = Append(log, "chunk_pr_files")
  /\ chunks' = chunk_pr_files(pr_data[1].files, chunker.skip_patterns,
                              pr_data[1].title, pr_data[1].description)
  /\ pc' = IF chunks' = <<>> THEN "format" ELSE "review"
  /\ UNCHANGED <<env, cfgFile, config, pr_number, chunker, reviewer, pr_data,
                 project_info, reviews, lists, comment, posted, outcomes,
                 failed, exit_status>>

\* main, lines 75-85: DiffChunker.chunk_pr_files and the early return
ChunkFiles ==
  /\ pc = "chunk"
  /\ UNCHANGED <<call, returned>>
  /\ log' = Append(log, "chunk_pr_files")
  /\ chunks' = chunk_pr_files(pr_data[1].files, chunker.skip_patterns,
                              pr_data[1].title, pr_data[1].description)
  /\ IF chunks' = <<>> THEN Exit(0)
     ELSE pc' = "review" /\ UNCHANGED exit_status
  /\ UNCHANGED <<env, cfgFile, config, pr_number, chunker, reviewer, pr_data,
                 project_info, reviews, lists, comment, posted, outcomes, failed>>

\* ReviewNextChunk whose loop ends after its first turn
ReviewNextChunk_StopEarly ==
  /\ pc = "review"
  /\ UNCHANGED <<call, returned>>
  /\ Len(reviews) < Len(chunks)
  /\ \E outcome \in Outcomes :
       /\ reviews' = Append(reviews, MakeReview(chunks[Len(reviews) + 1], outcome))
       /\ outcomes' = Append(outcomes, outcome)
  /\ log' = Append(log, "completion")
  /\ pc' = "format"
  /\ UNCHANGED <<env, cfgFile, config, pr_number, chunker, reviewer, pr_data,
                 project_info, chunks, lists, comment, posted, exit_status,
                 failed>>

\* main, line 89: one turn of the loop of LLMReviewer.review_all_chunks,
\* its completion call included; the loop ends after the last chunk
ReviewNextChunk ==
  /\ pc = "review"
  /\ UNCHANGED <<call, returned>>
  /\ Len(reviews) < Len(chunks)
  /\ \E outcome \in Outcomes :
       /\ reviews' = Append(reviews, MakeReview(chunks[Len(reviews) + 1], outcome))
       /\ outcomes' = Append(outcomes, outcome)
  /\ log' = Append(log, "completion")
  /\ pc' = IF Len(reviews') = Len(chunks) THEN "format" ELSE "review"
  /\ UNCHANGED <<env, cfgFile, config, pr_number, chunker, reviewer, pr_data,
                 project_info, chunks, lists, comment, posted, exit_status,
                 failed>>

\* main, line 93: ResponseFormatter.aggregate_reviews
FormatReviews ==
  /\ pc = "format"
  /\ UNCHANGED <<call, returned>>
  /\ log' = Append(log, "aggregate_reviews")
  /\ \E timestamp \in Timestamps :
       LET r == aggregate_reviews(reviews, pr_data[1], timestamp)
       IN IF r.ok
          THEN /\ lists' = r.lists
               /\ comment' = r.comment
               /\ pc' = "post"
               /\ UNCHANGED exit_status
          ELSE Exit(1) /\ UNCHANGED <<lists, comment>>
  /\ UNCHANGED <<env, cfgFile, config, pr_number, chunker, reviewer, pr_data,
                 project_info, chunks, reviews, posted, outcomes, failed>>

\* main, lines 95-98: the report is posted
PostReview ==
  /\ pc = "post"
  /\ UNCHANGED <<call, returned>>
  /\ PostAndExit(comment)
  /\ UNCHANGED <<env, cfgFile, config, pr_number, chunker, reviewer, pr_data,
                 project_info, chunks, reviews, lists, comment, outcomes>>

Next ==
  \/ LoadConfig
  \/ CheckEnvironment
  \/ InitComponents
  \/ FetchPR
  \/ GetProjectInfo
  \/ CheckFileCount
  \/ ChunkFiles
  \/ ReviewNextChunk
  \/ FormatReviews
  \/ PostReview

Spec == Init /\ [][Next]_vars

\* ------------------------------------------- the configuration on its own
\* Config() over every combination of overrides and file contents
InitConfig ==
  /\ pc = "start"
  /\ env \in ConfigEnvs
  /\ cfgFile \in ConfigFiles
  /\ Fresh

NextConfig == LoadConfig

SpecConfig == InitConfig /\ [][NextConfig]_vars

\* ------------------------------------------------- the chunker on its own
\* main about to call chunk_pr_files, over every file list and pattern list
InitChunk ==
  /\ pc = "chunk"
  /\ env = BaseEnv
  /\ cfgFile = [status |-> "missing", content |-> empty_config]
  /\ config = default_config
  /\ pr_number = 7
  /\ chunker \in {[skip_patterns |-> ps] : ps \in PatternLists}
  /\ reviewer = [model |-> DefaultModel, temperature |-> DefaultTemperature,
                 base_url |-> ""]
  /\ pr_data \in {Some(PullRequest(fs)) : fs \in ChunkFileLists}
  /\ project_info = Some(ProjectInfo)
  /\ chunks = <<>>
  /\ reviews = <<>>
  /\ lists = EmptyLists
  /\ comment = <<>>
  /\ posted = <<>>
  /\ exit_status = None
  /\ log = <<"get_repo", "get_pr_data", "get_project_info">>
  /\ outcomes = <<>>
  /\ failed = {}
  /\ call = NoCall
  /\ returned = None

NextChunk == ChunkFiles

SpecChunk == InitChunk /\ [][NextChunk]_vars

\* ----------------------------------------------- the formatter on its own
ReviewPaths == <<APy, AppJs, BigPy>>

\* the texts a review record can hold: what a completion returned, or the
\* placeholder of a failed call
RecordTexts == ReviewTexts \cup {ErrorPlaceholder(APy, <<"timeout">>)}

\* the review lists aggregate_reviews is tried on: one record per path, in
\* the order of ReviewPaths, the empty list included
ReviewLists ==
  UNION {{[i \in 1..k |->
             [file_path |-> ReviewPaths[i],
              file_language |-> get_file_language(ReviewPaths[i]),
              review |-> Some(ts[i])]] :
            ts \in [1..k -> RecordTexts]} :
         k \in 0..MaxReviews}

\* main about to call aggregate_reviews, over every review list
InitFormat ==
  /\ pc = "format"
  /\ env = BaseEnv
  /\ cfgFile = [status |-> "missing", content |-> empty_config]
  /\ config = default_config
  /\ pr_number = 7
  /\ chunker = [skip_patterns |-> <<>>]
  /\ reviewer = [model |-> DefaultModel, temperature |-> DefaultTemperature,
                 base_url |-> ""]
  /\ pr_data = Some(PullRequest(<<>>))
  /\ project_info = Some(ProjectInfo)
  /\ chunks = <<>>
  /\ reviews \in ReviewLists
  /\ lists = EmptyLists
  /\ comment = <<>>
  /\ posted = <<>>
  /\ exit_status = None
  /\ log = <<>>
  /\ outcomes = <<>>
  /\ failed = {}
  /\ call = NoCall
  /\ returned = None

NextFormat == FormatReviews

SpecFormat == InitFormat /\ [][NextFormat]_vars

\* ================================================================== claims
\* review_all_chunks has returned
ReviewsReturned == chunks /= <<>> /\ pc \in {"format", "post", "done"}

\* C1: whatever completion calls raise, review_all_chunks returns exactly
\* one record per chunk, in chunk order, each with its chunk's file path;
\* the record of a chunk whose call raised holds "Error reviewing <file
\* path>: <failure text>"; one completion call is made per chunk, none twice.
C1_OneReviewPerChunk ==
  /\ Len(reviews) <= Len(chunks)
  /\ Count("completion") = Len(reviews)
  /\ Len(outcomes) = Len(reviews)
  /\ ReviewsReturned => Len(reviews) = Len(chunks)
  /\ \A i \in 1..Len(reviews) :
       /\ reviews[i].file_path = chunks[i].file_path
       /\ outcomes[i].kind = "raise" =>
            reviews[i].review =
              Some(<<"Error", " ", "reviewing", " ">> \o chunks[i].file_path
                   \o <<":", " ">> \o outcomes[i].text)

\* C1 witness: two chunks reviewed, the first call raised, the second did not
C1_Witness ==
  /\ ReviewsReturned
  /\ Len(chunks) = 2
  /\ outcomes[1].kind = "raise"
  /\ outcomes[2].kind = "text"

\* C2: once the review stage is reached, no outcome of a completion call
\* aborts the run: every chunk is reviewed, the report is posted and the
\* process exits with status zero (the hosting API accepting the post).
C2_NoOutcomeAbortsRun ==
  (pc = "done" /\ Count("completion") > 0 /\ "post_review_comment" \notin failed)
    => /\ Count("completion") = Len(chunks)
       /\ posted = <<comment>>
       /\ exit_status = Some(0)

\* C3: chunk_pr_files returns exactly one chunk for each file that matches
\* no skip pattern, has a non-empty patch and at most 500 changes, none for
\* any other file, and the chunks follow the order of their files.
C3_ChunksAreFilteredFiles ==
  pc /= "chunk" =>
    LET files == pr_data[1].files
        Passes(f) ==
          /\ ~should_skip_file(f.filename, chunker.skip_patterns)
          /\ f.patch /= None
          /\ f.patch[1] /= <<>>
          /\ f.changes <= 500
        SourceIndex(j) ==
          CHOOSE i \in 1..Len(files) : files[i].filename = chunks[j].file_path
    IN /\ \A i \in 1..Len(files) :
            Cardinality({j \in 1..Len(chunks) :
                           chunks[j].file_path = files[i].filename})
              = IF Passes(files[i]) THEN 1 ELSE 0
       /\ \A j \in 1..Len(chunks) :
            \E i \in 1..Len(files) : files[i].filename = chunks[j].file_path
       /\ \A j, k \in 1..Len(chunks) : j < k => SourceIndex(j) < SourceIndex(k)

\* C3 witness: a file with 501 changes dropped and the file after it, with
\* exactly 500, kept
C3_Witness ==
  /\ pc /= "chunk"
  /\ Len(pr_data[1].files) = 2
  /\ pr_data[1].files[1].changes = 501
  /\ pr_data[1].files[1].patch = Some(SomePatch)
  /\ ~should_skip_file(pr_data[1].files[1].filename, chunker.skip_patterns)
  /\ pr_data[1].files[2].changes = 500
  /\ Len(chunks) = 1
  /\ chunks[1].file_path = pr_data[1].files[2].filename

\* C4: with more files than the configured maximum the run posts exactly
\* one comment, the "PR Too Large" notice, calls neither the chunker nor the
\* completion endpoint nor the formatter, and exits with status zero (the
\* hosting API accepting the post); with a file count up to the maximum,
\* the maximum itself included, the chunker is called.
C4_TooLargePostsNoticeOnly ==
  (pr_data /= None /\ max_files(env, config).ok) =>
    LET n == Len(pr_data[1].files)
        m == max_files(env, config).val
    IN /\ n > m =>
            /\ pc \in {"info", "count", "done"}
            /\ Count("chunk_pr_files") = 0
            /\ Count("completion") = 0
            /\ Count("aggregate_reviews") = 0
            /\ pc = "done" =>
                 /\ Count("post_review_comment") = 1
                 /\ "post_review_comment" \notin failed =>
                      /\ Len(posted) = 1
                      /\ Split(posted[1], NL)[3] = <<"**PR Too Large**">>
                      /\ exit_status = Some(0)
       /\ n <= m =>
            /\ pc = "done" => Count("chunk_pr_files") = 1
            /\ \A i \in 1..Len(posted) :
                 Split(posted[i], NL)[3] /= <<"**PR Too Large**">>

\* C4 witness: a run over the maximum that ended with its notice posted
C4_Witness ==
  /\ pc = "done"
  /\ pr_data /= None
  /\ max_files(env, config).ok
  /\ Len(pr_data[1].files) > max_files(env, config).val
  /\ Len(posted) = 1
  /\ exit_status = Some(0)

\* C5: for each of the three list sections the report lists every parsed
\* item of that kind of every review as a line "- **<file path>**: <item>",
\* in the order of the reviews and, within a review, of its items; the
\* heading of the section is in the report exactly when there is an item.
C5_SectionsListAllItems ==
  pc = "post" =>
    LET lines == Split(comment, NL)
        Heading(key) ==
          CASE key = "MAJOR_ISSUES" -> MajorHeading
            [] key = "MINOR_ISSUES" -> MinorHeading
            [] key = "TEST_SUGGESTIONS" -> TestHeading
        Items(i, key) ==
          LET parsed == parse_review(reviews[i].review[1])[key]
          IN IF parsed = None THEN <<>> ELSE parsed[1]
        RECURSIVE Expected(_, _)
        Expected(i, key) ==
          IF i > Len(reviews) THEN <<>>
          ELSE [j \in 1..Len(Items(i, key)) |->
                  <<"-", " ", "*", "*">> \o reviews[i].file_path
                  \o <<"*", "*", ":", " ">> \o Items(i, key)[j]]
               \o Expected(i + 1, key)
    IN \A key \in ListKeys :
         LET want == Expected(1, key)
             at == {h \in 1..Len(lines) : lines[h] = Heading(key)}
         IN IF want = <<>> THEN at = {}
            ELSE /\ Cardinality(at) = 1
                 /\ LET h == CHOOSE x \in at : TRUE
                    IN /\ Len(lines) >= h + 2 + Len(want)
                       /\ lines[h + 1] = <<>>
                       /\ SubSeq(lines, h + 2, h + 1 + Len(want)) = want
                       /\ lines[h + 2 + Len(want)] = <<>>

\* C5 witness: a report over two reviews that both have minor issues, the
\* first of them with two major issues
C5_Witness ==
  /\ pc = "post"
  /\ Len(reviews) >= 2
  /\ reviews[1].review = Some(FullText)
  /\ reviews[2].review = Some(MinorOnlyText)

\* C6: the report has the "No Issues Found" block exactly when the
\* aggregated major, minor and test lists are all empty, whether or not
\* there is an assessment, and never together with a list section.
C6_NoIssuesBlock ==
  pc = "post" =>
    LET lines == Split(comment, NL)
        Has(heading) == \E i \in 1..Len(lines) : lines[i] = heading
    IN /\ Has(NoIssuesHeading) <=>
            /\ lists.major_issues = <<>>
            /\ lists.minor_issues = <<>>
            /\ lists.test_suggestions = <<>>
       /\ Has(NoIssuesHeading) =>
            ~(Has(MajorHeading) \/ Has(MinorHeading) \/ Has(TestHeading))
       /\ reviews = <<>> => Has(NoIssuesHeading)

\* C6 witness: a report with both an Overall Assessment section and the
\* "No Issues Found" block
C6_Witness ==
  /\ pc = "post"
  /\ lists.assessments /= <<>>
  /\ \E i \in 1..Len(Split(comment, NL)) :
       Split(comment, NL)[i] = NoIssuesHeading
  /\ \E i \in 1..Len(Split(comment, NL)) :
       Split(comment, NL)[i] = AssessmentHeading

\* C7 as claimed: a failure of any hosting-API operation of the run makes
\* the run end with a non-zero exit status.
C7_EveryFailureIsFatal ==
  (pc = "done" /\ failed /= {}) => exit_status = Some(1)

\* C7 as amended: a failure of opening the repository, of fetching the
\* change set or of posting the comment ends the run at once with status 1;
\* a failure of get_project_info is swallowed, the fallback metadata stands
\* in and the run goes on.
C7_FetchAndPostFailuresAreFatal ==
  /\ failed \cap {"get_repo", "get_pr_data", "post_review_comment"} /= {} =>
       pc = "done" /\ exit_status = Some(1)
  /\ "get_project_info" \in failed =>
       /\ project_info = Some(FallbackProjectInfo)
       /\ pc /= "info"
       /\ (pc = "done" /\ exit_status = Some(1)) =>
            \/ failed /= {"get_project_info"}
            \/ ~max_files(env, config).ok
            \/ \E i \in 1..Len(outcomes) : outcomes[i].kind = "none_content"

\* C7 witness: a run whose post failed after two chunks were reviewed
C7_Witness ==
  /\ pc = "done"
  /\ "post_review_comment" \in failed
  /\ Count("completion") = 2
  /\ exit_status = Some(1)

\* PR_NUMBER or REPO_NAME is missing from the environment
IdentifierMissing == env.PR_NUMBER = None \/ env.REPO_NAME = None

\* the configuration file loads and disables the review
ReviewDisabled ==
  /\ load_config(cfgFile).ok
  /\ ~Get(load_config(cfgFile).val.enabled, TRUE)

\* C8 as claimed: whatever the configuration, a missing PR_NUMBER or
\* REPO_NAME makes the entry point exit non-zero without any call.
C8_MissingIdentifierExitsNonZero ==
  (pc = "done" /\ IdentifierMissing) => exit_status = Some(1) /\ log = <<>>

\* C8 as amended: with PR_NUMBER or REPO_NAME missing no hosting-API or
\* completion call is ever made, and the entry point exits non-zero unless
\* the configuration disables the review, in which case it exits with zero.
C8_MissingIdentifierUnlessDisabled ==
  IdentifierMissing =>
    /\ log = <<>>
    /\ pc \in {"start", "loaded", "done"}
    /\ pc = "done" =>
         exit_status = Some(IF ReviewDisabled THEN 0 ELSE 1)

\* C8 witness: an enabled run without PR_NUMBER that ended with status 1
C8_Witness ==
  /\ pc = "done"
  /\ env.PR_NUMBER = None
  /\ env.REPO_NAME /= None
  /\ ~ReviewDisabled
  /\ load_config(cfgFile).ok
  /\ exit_status = Some(1)

\* C9: with a file count within the maximum and no file left by the
\* filters, the run makes no completion call, posts nothing and exits with
\* status zero.
C9_NoChunksSilentExit ==
  (/\ pr_data /= None
   /\ max_files(env, config).ok
   /\ Len(pr_data[1].files) <= max_files(env, config).val
   /\ \A i \in 1..Len(pr_data[1].files) :
        \/ should_skip_file(pr_data[1].files[i].filename, chunker.skip_patterns)
        \/ pr_data[1].files[i].patch \in {None, Some(<<>>)}
        \/ pr_data[1].files[i].changes > 500)
    => /\ Count("completion") = 0
       /\ Count("post_review_comment") = 0
       /\ posted = <<>>
       /\ pc \in {"info", "count", "chunk", "done"}
       /\ pc = "done" => exit_status = Some(0)

\* C9 witness: a run over a non-empty file list that chunked to nothing
C9_Witness ==
  /\ pc = "done"
  /\ pr_data /= None
  /\ Len(pr_data[1].files) >= 1
  /\ Count("chunk_pr_files") = 1
  /\ chunks = <<>>
  /\ exit_status = Some(0)

\* the value the file provides for a top-level key, if it provides one
FileValue(key) ==
  IF cfgFile.status = "ok" THEN cfgFile.content[key] ELSE None

\* the value the file provides under llm, if it provides one
FileLlmValue(key) ==
  IF cfgFile.status = "ok" /\ cfgFile.content.llm /= None
  THEN cfgFile.content.llm[1][key]
  ELSE None

\* maximum files, model name and temperature resolve to the environment
\* override, else to the file's value, else to the default; an override
\* that is not a number makes the accessor raise
NumbersAndModelResolve ==
  /\ llm_model(env, config) =
       (IF env.LLM_MODEL /= None THEN env.LLM_MODEL[1]
        ELSE IF FileLlmValue("model") /= None THEN FileLlmValue("model")[1]
        ELSE "gpt-4-turbo-preview")
  /\ IF env.MAX_FILES_PER_PR /= None
     THEN /\ max_files(env, config).ok = IntOfStr(env.MAX_FILES_PER_PR[1]).ok
          /\ max_files(env, config).ok =>
               max_files(env, config).val = IntOfStr(env.MAX_FILES_PER_PR[1]).val
     ELSE /\ max_files(env, config).ok
          /\ max_files(env, config).val =
               (IF FileValue("max_files") /= None THEN FileValue("max_files")[1]
                ELSE 50)
  /\ IF env.LLM_TEMPERATURE /= None
     THEN /\ llm_temperature(env, config).ok = FloatOfStr(env.LLM_TEMPERATURE[1]).ok
          /\ llm_temperature(env, config).ok =>
               llm_temperature(env, config).val
                 = FloatOfStr(env.LLM_TEMPERATURE[1]).val
     ELSE /\ llm_temperature(env, config).ok
          /\ llm_temperature(env, config).val =
               (IF FileLlmValue("temperature") /= None
                THEN FileLlmValue("temperature")[1]
                ELSE 3)

\* the enabled flag as the file gives it, else true
EnabledFromFile ==
  IF FileValue("enabled") /= None THEN FileValue("enabled")[1] ELSE TRUE

\* C10 as claimed: each of the four scalars resolves to the environment
\* override when one is set, else to the file's value, else to the default.
C10_EveryScalarHasOverride ==
  pc = "loaded" =>
    /\ NumbersAndModelResolve
    /\ is_enabled(env, config) =
         (IF env.AI_REVIEW_ENABLED /= None
          THEN env.AI_REVIEW_ENABLED[1] = "true"
          ELSE EnabledFromFile)

\* C10 as amended: maximum files, model name and temperature resolve to the
\* environment override, else the file's value, else the default; the
\* enabled flag resolves to the file's value, else true, whatever the
\* environment holds.
C10_ScalarsResolveEnabledFromFile ==
  pc = "loaded" =>
    /\ NumbersAndModelResolve
    /\ is_enabled(env, config) = EnabledFromFile

\* C10 witness: a loaded configuration whose file gives max_files 1 and a
\* model, under overrides of both
C10_Witness ==
  /\ pc = "loaded"
  /\ env.MAX_FILES_PER_PR = Some(<<"2">>)
  /\ env.LLM_MODEL = Some("env-model")
  /\ FileValue("max_files") = Some(1)
  /\ FileLlmValue("model") = Some("file-model")
  /\ max_files(env, config).val = 2

\* ---------------------------------------------------- helpers on their own
\* the pipeline at rest while a helper is called on its own
PipelineIdle ==
  /\ env = BaseEnv
  /\ cfgFile = [status |-> "missing", content |-> empty_config]
  /\ config = empty_config
  /\ pr_number = 0
  /\ chunker = [skip_patterns |-> <<>>]
  /\ reviewer = [model |-> "", temperature |-> 0, base_url |-> ""]
  /\ pr_data = None
  /\ project_info = None
  /\ chunks = <<>>
  /\ reviews = <<>>
  /\ lists = EmptyLists
  /\ comment = <<>>
  /\ posted = <<>>
  /\ exit_status = None
  /\ log = <<>>
  /\ outcomes = <<>>
  /\ failed = {}

\* a helper returns: only the position and the result change
Return(value) ==
  /\ returned' = Some(value)
  /\ pc' = "returned"
  /\ UNCHANGED <<env, cfgFile, config, pr_number, chunker, reviewer, pr_data,
                 project_info, chunks, reviews, lists, comment, posted,
                 exit_status, log, outcomes, failed, call>>

\* ------------------------------------------- core/chunker: patch splitting
\* Longest patch, in lines, handed to split_large_patch.
MaxPatchLines == 4

RECURSIVE SplitHunks(_, _, _)
\* the loop of split_large_patch over the lines and the flush after it
SplitHunks(lines, hunks, current_hunk) ==
  IF lines = <<>>
  THEN (IF current_hunk /= <<>> THEN Append(hunks, Join(current_hunk, NL))
        ELSE hunks)
  ELSE IF StartsWith(lines[1], "@@") /\ current_hunk /= <<>>
  THEN SplitHunks(Tail(lines), Append(hunks, Join(current_hunk, NL)),
                  <<lines[1]>>)
  ELSE SplitHunks(Tail(lines), hunks, Append(current_hunk, lines[1]))

\* split_large_patch with the whole patch returned only below max_lines
split_large_patch_Below(patch, max_lines) ==
  IF Len(Split(patch, NL)) < max_lines THEN <<patch>>
  ELSE SplitHunks(Split(patch, NL), <<>>, <<>>)

\* DiffChunker.split_large_patch
split_large_patch(patch, max_lines) ==
  IF Len(Split(patch, NL)) <= max_lines THEN <<patch>>
  ELSE SplitHunks(Split(patch, NL), <<>>, <<>>)

\* the lines a patch is made of: a hunk marker, an added line, an empty
\* line, a line with "@@" after a blank
PatchLines == {<<"@@", " ", "h">>, <<"+", "x">>, <<>>, <<" ", "@@">>}

\* the patches split_large_patch is tried on: every text of one to
\* MaxPatchLines such lines
Patches ==
  UNION {{Join(ls, NL) : ls \in [1..n -> PatchLines]} : n \in 1..MaxPatchLines}

InitSplit ==
  /\ pc = "split_large_patch"
  /\ PipelineIdle
  /\ call \in {[op |-> "split_large_patch", patch |-> p, max_lines |-> m] :
                 p \in Patches, m \in 1..MaxPatchLines}
  /\ returned = None

\* a caller invokes split_large_patch
SplitPatch ==
  /\ pc = "split_large_patch"
  /\ Return(split_large_patch(call.patch, call.max_lines))

NextSplit == SplitPatch

SpecSplit == InitSplit /\ [][NextSplit]_vars

\* the lines of the patch of the call, and those that begin with "@@"
CallLines == Split(call.patch, NL)

MarkerCount ==
  Cardinality({i \in 1..Len(CallLines) : StartsWith(CallLines[i], "@@")})

\* C11 as claimed: a patch of at most max_lines lines comes back whole, as
\* the only segment; a longer patch with exactly k lines beginning with "@@"
\* comes back as exactly k segments, each starting with "@@".
C11_OneSegmentPerMarker ==
  pc = "returned" =>
    IF Len(CallLines) <= call.max_lines THEN returned[1] = <<call.patch>>
    ELSE /\ Len(returned[1]) = MarkerCount
         /\ \A j \in 1..Len(returned[1]) : StartsWith(returned[1][j], "@@")

\* C11 as amended: a patch of at most max_lines lines comes back whole; a
\* longer patch whose first line begins with "@@" comes back as exactly k
\* segments, each starting with "@@"; a longer patch whose first line does
\* not begin with "@@" comes back as k + 1 segments, the first holding the
\* lines before the first marker and every later one starting with "@@".
\* The segments joined by newlines are the patch.
C11_SegmentsWithLeadingPart ==
  pc = "returned" =>
    IF Len(CallLines) <= call.max_lines THEN returned[1] = <<call.patch>>
    ELSE /\ Join(returned[1], NL) = call.patch
         /\ IF StartsWith(CallLines[1], "@@")
            THEN /\ Len(returned[1]) = MarkerCount
                 /\ \A j \in 1..Len(returned[1]) :
                      StartsWith(returned[1][j], "@@")
            ELSE /\ Len(returned[1]) = MarkerCount + 1
                 /\ ~StartsWith(returned[1][1], "@@")
                 /\ \A i \in 1..Len(Split(returned[1][1], NL)) :
                      ~StartsWith(Split(returned[1][1], NL)[i], "@@")
                 /\ \A j \in 2..Len(returned[1]) :
                      StartsWith(returned[1][j], "@@")

\* C11 witness: a patch longer than max_lines that begins with a marker and
\* came back as its two hunks
C11_Witness ==
  /\ pc = "returned"
  /\ Len(CallLines) > call.max_lines
  /\ StartsWith(CallLines[1], "@@")
  /\ MarkerCount = 2
  /\ Len(returned[1]) = 2

\* ------------------------------------------- core/responder: the parser
\* Longest review text, in lines, handed to _parse_review.
MaxTextLines == 3

\* sections as _parse_review holds it after the last section is committed
\* and before the lists are parsed (line 118)
committed_sections(review_text) ==
  ParseLines(Split(review_text, NL), [k \in SectionKeys |-> None], None, <<>>)

\* the lines a review text is made of: the five headers (one after a blank
\* and followed by text, one followed by a hyphen), an empty line, a plain
\* line between blanks, two bullet lines (one with hyphens inside and at
\* its end), and a line with a header token after other text
TextLines ==
  {<<"PR_SUMMARY:">>,
   <<" ", "MAJOR_ISSUES:", " ", "x">>,
   <<"MINOR_ISSUES:">>,
   <<"TEST_SUGGESTIONS:", "-", "y">>,
   <<"OVERALL_ASSESSMENT:">>,
   <<>>,
   <<" ", "a", " ">>,
   <<"-", " ", "b">>,
   <<" ", "-", "c", "-", "d", "-">>,
   <<"a", "MAJOR_ISSUES:">>}

\* the review texts _parse_review is tried on: every text of one to
\* MaxTextLines such lines
ParseTexts ==
  UNION {{Join(ls, NL) : ls \in [1..n -> TextLines]} : n \in 1..MaxTextLines}

InitParse ==
  /\ pc = "parse_review"
  /\ PipelineIdle
  /\ call \in {[op |-> "parse_review", review_text |-> t] : t \in ParseTexts}
  /\ returned = None

\* aggregate_reviews invokes _parse_review: what it had committed before the
\* lists were parsed, and the mapping it returns
ParseReview ==
  /\ pc = "parse_review"
  /\ Return([committed |-> committed_sections(call.review_text),
             sections |-> parse_review(call.review_text)])

NextParse == ParseReview

SpecParse == InitParse /\ [][NextParse]_vars

\* the trimmed lines of the review text of the call
TrimmedLine(i) == Strip(Split(call.review_text, NL)[i])

\* line i is a header line, and the key it opens
IsHeaderLine(i) == TrimmedLine(i) /= <<>> /\ TrimmedLine(i)[1] \in Headers

\* the text the claim expects under a key: none when no line opens the key,
\* else the trimmed non-empty lines after the last line that opens it, up
\* to the next header line or the end, joined by newlines
ExpectedText(key) ==
  LET n == Len(Split(call.review_text, NL))
      opens == {i \in 1..n : IsHeaderLine(i) /\ HeaderKey(TrimmedLine(i)[1]) = key}
  IN IF opens = {} THEN None
     ELSE LET last == CHOOSE i \in opens : \A o \in opens : o <= i
              later == {j \in (last + 1)..n : IsHeaderLine(j)} \cup {n + 1}
              stop == CHOOSE j \in later : \A o \in later : j <= o
              kept == SelectSeq([i \in 1..(stop - last - 1) |-> TrimmedLine(last + i)],
                                LAMBDA l : l /= <<>>)
          IN Some(Join(kept, NL))

\* C12: _parse_review yields a key for exactly the headers that begin some
\* trimmed line; the text committed under a key is the newline-join of the
\* trimmed non-empty lines between the last line that opens it and the next
\* header line or the end of the input; nothing else reaches a value.
C12_CommittedSections ==
  pc = "returned" =>
    \A key \in SectionKeys :
      /\ returned[1].committed[key] = ExpectedText(key)
      /\ (returned[1].sections[key] /= None) <=> (ExpectedText(key) /= None)
      /\ key \notin ListKeys => returned[1].sections[key] = ExpectedText(key)

\* C12 witness: a text whose summary header comes twice, a bullet line after
\* the first and nothing after the second, which is what is committed
C12_Witness ==
  /\ pc = "returned"
  /\ call.review_text =
       Join(<< <<"PR_SUMMARY:">>, <<"-", " ", "b">>, <<"PR_SUMMARY:">> >>, NL)
  /\ returned[1].sections["PR_SUMMARY"] = Some(<<>>)

\* the committed lines of a list section whose trimmed form starts with "-",
\* each without that one leading "-" and the whitespace around the rest
ExpectedItems(key) ==
  LET lines == Split(returned[1].committed[key][1], NL)
      bullets == SelectSeq(lines, LAMBDA l : StartsWith(Strip(l), "-"))
  IN [j \in 1..Len(bullets) |-> Strip(Tail(Strip(bullets[j])))]

\* C13: each list section holds, in order, one item per committed line whose
\* trimmed form starts with "-", the item being the line without its leading
\* "-" and the surrounding whitespace, every other character kept, hyphens
\* inside and at the end included.
C13_ItemsKeepTheirHyphens ==
  pc = "returned" =>
    \A key \in ListKeys :
      returned[1].committed[key] /= None =>
        returned[1].sections[key] = Some(ExpectedItems(key))

\* ------------------------------------------- utils/filters on its own
\* Longest list of skip patterns handed to should_skip_file.
MaxPatterns == 2

\* the paths should_skip_file is tried on: at the top level, one and two
\* directories deep
FilterPaths ==
  {AppJs, APy, BundleJs, AppMinJs,
   <<"src", "/", "lib", "/", "x", ".", "py">>,
   <<"build", "/", "out", ".", "js">>,
   <<"lib", "/", "x", ".", "py">>}

\* the skip patterns: two of the defaults, a directory written with a
\* trailing slash, a prefix with a single star, a directory with "/*", a
\* directory pattern followed by a slash, and a nested directory
FilterPatterns ==
  {DistPattern, MinJsPattern,
   <<"src", "/">>,
   <<"build", "*">>,
   <<"lib", "/", "*">>,
   <<"src", "/", "*", "*", "/">>,
   <<"src", "/", "lib", "/", "*", "*">>}

InitFilter ==
  /\ pc = "should_skip_file"
  /\ PipelineIdle
  /\ call \in {[op |-> "should_skip_file", file_path |-> f, skip_patterns |-> ps] :
                 f \in FilterPaths, ps \in SeqsUpTo(FilterPatterns, MaxPatterns)}
  /\ returned = None

\* chunk_pr_files asks should_skip_file about one file
SkipFile ==
  /\ pc = "should_skip_file"
  /\ Return(should_skip_file(call.file_path, call.skip_patterns))

NextFilter == SkipFile

SpecFilter == InitFilter /\ [][NextFilter]_vars

\* a pattern without one literal trailing "/**"; any other pattern unchanged
WithoutDirSuffix(pattern) ==
  LET n == Len(pattern)
  IN IF n >= 3 /\ SubSeq(pattern, n - 2, n) = <<"/", "*", "*">>
     THEN SubSeq(pattern, 1, n - 3)
     ELSE pattern

\* C14: should_skip_file is true exactly when, for some pattern, the bare
\* name matches it, or the full path matches it, or an ancestor directory
\* matches it after one literal trailing "/**" is removed; a pattern that
\* does not end in "/**" is compared with the ancestors unchanged.
C14_AncestorsMatchLiteralSuffix ==
  pc = "returned" =>
    (returned[1] <=>
       \E i \in 1..Len(call.skip_patterns) :
         \/ fnmatch(PathName(call.file_path), call.skip_patterns[i])
         \/ fnmatch(call.file_path, call.skip_patterns[i])
         \/ \E k \in 1..Len(PathParents(call.file_path)) :
              fnmatch(PathParents(call.file_path)[k],
                      WithoutDirSuffix(call.skip_patterns[i])))

\* ---------------------------------------------- failed completion calls
\* some line of the text begins, once trimmed, with a section header
HasHeaderLine(text) ==
  \E i \in 1..Len(Split(text, NL)) :
    LET line == Strip(Split(text, NL)[i])
    IN line /= <<>> /\ line[1] \in Headers

\* the text of the failure of completion call i
FailureText(i) ==
  IF outcomes[i].kind = "no_choices" THEN IndexErrorText ELSE outcomes[i].text

\* completion call i failed, with a failure text that has no header line
FailedPlainly(i) ==
  /\ outcomes[i].kind \in {"raise", "no_choices"}
  /\ ~HasHeaderLine(FailureText(i))

\* the review records other than those of plainly failed calls, in order
RECURSIVE OtherReviews(_)
OtherReviews(n) ==
  IF n = 0 THEN <<>>
  ELSE OtherReviews(n - 1) \o (IF FailedPlainly(n) THEN <<>> ELSE <<reviews[n]>>)

\* the symbols a report would need to mention a failure
FailureWords ==
  {"Error", "reviewing"}
  \cup UNION {{FailureText(i)[j] : j \in 1..Len(FailureText(i))} :
                i \in 1..Len(outcomes)}

\* aggregate_reviews has returned the report of this run
Aggregated ==
  /\ pc \in {"post", "done"}
  /\ Count("aggregate_reviews") = 1
  /\ \A i \in 1..Len(reviews) : reviews[i].review /= None

\* C15: the record of a failed completion call whose failure text has no
\* header line adds nothing to any list of the report (the lists are those
\* of the other records alone); a run in which every call fails so still
\* attempts to post one report, and the report, once posted, has the
\* "No Issues Found" block and no word of the failures.
C15_FailuresLeaveNoTrace ==
  Aggregated =>
    /\ \A i \in 1..Len(reviews) :
         FailedPlainly(i) =>
           /\ reviews[i].review[1][1] = "Error"
           /\ \A key \in SectionKeys : parse_review(reviews[i].review[1])[key] = None
    /\ lists = Aggregate(OtherReviews(Len(reviews)), EmptyLists)
    /\ (pc = "done" /\ \A i \in 1..Len(reviews) : FailedPlainly(i)) =>
         /\ Count("post_review_comment") = 1
         /\ \E i \in 1..Len(comment) : comment[i] = NoIssuesHeading[1]
         /\ \E i \in 1..Len(comment) : comment[i] = NoIssuesText[1]
         /\ \A i \in 1..Len(comment) : comment[i] \notin FailureWords
         /\ "post_review_comment" \notin failed =>
              posted = <<comment>> /\ exit_status = Some(0)

\* C15 witness: two chunks, both calls failed (one raised, one answered
\* without choices), and the report was posted
C15_Witness ==
  /\ pc = "done"
  /\ Len(reviews) = 2
  /\ outcomes[1] = [kind |-> "raise", text |-> <<"timeout">>]
  /\ outcomes[2].kind = "no_choices"
  /\ Len(posted) = 1
  /\ \E i \in 1..Len(posted[1]) : posted[1][i] = NoIssuesHeading[1]

\* ------------------------------------------------------ order of the calls
\* the positions of an event in the log
Positions(event) == {i \in 1..Len(log) : log[i] = event}

\* C16: in every run at most one comment is posted; on the full-review path
\* it is posted only after the completion call of every chunk has returned
\* and the aggregation has finished; no completion call follows a post.
C16_OnePostAfterAllReviews ==
  /\ Len(posted) <= 1
  /\ Count("post_review_comment") <= 1
  /\ Len(posted) <= Count("post_review_comment")
  /\ \A p \in Positions("post_review_comment") :
       /\ p = Len(log)
       /\ \A c \in Positions("completion") : c < p
       /\ Positions("completion") /= {} =>
            /\ Count("completion") = Len(chunks)
            /\ Len(reviews) = Len(chunks)
            /\ \E a \in Positions("aggregate_reviews") :
                 /\ a < p
                 /\ \A c \in Positions("completion") : c < a
            /\ posted /= <<>> => posted = <<comment>>

\* C16 witness: two chunks reviewed, then the aggregation, then the post,
\* which was accepted
C16_Witness ==
  /\ pc = "done"
  /\ Count("completion") = 2
  /\ Len(chunks) = 2
  /\ Len(posted) = 1
  /\ log[Len(log)] = "post_review_comment"

====
